---- MODULE Spec2Model ----
(***************************************************************************)
(* Model of three pieces of the scrapoxy repository:                       *)
(*   - parseFreeproxy / hashCode  (common/src/freeproxies)                 *)
(*   - the `start` command        (backend/app/src/commands/start)         *)
(*   - the fleet orchestration protocol described by the design document   *)
(* Strings are sequences of one-character strings, so that splitting,      *)
(* number parsing, number formatting and hashing are computed and not      *)
(* assumed.                                                                *)
(***************************************************************************)
EXTENDS Integers, Sequences, FiniteSets

VARIABLES raw, stage, nAt, nFields, result,
          pairRaw, pairResult,
          config, env, pc, error, localApps, app, subscribed,
          tasks, desiredCount, liveCount, orders, applied, events, cursor, cache,
          submitted,
          token, tokenExpirationTs, loginPromise, logins, now, requests

parseVars == <<raw, stage, nAt, nFields, result>>
pairVars == <<pairRaw, pairResult>>
startVars == <<config, env, pc, error, localApps, app, subscribed>>
fleetVars == <<tasks, desiredCount, liveCount, orders, applied, events, cursor, cache,
               submitted>>
azureVars == <<token, tokenExpirationTs, loginPromise, logins, now, requests>>
vars == <<parseVars, pairVars, startVars, fleetVars, azureVars>>

\* What the steps of one part of the model leave alone.
otherThanParse == <<pairVars, startVars, fleetVars, azureVars>>
otherThanPair == <<parseVars, startVars, fleetVars, azureVars>>
otherThanStart == <<parseVars, pairVars, fleetVars, azureVars>>
otherThanFleet == <<parseVars, pairVars, startVars, azureVars>>
otherThanAzure == <<parseVars, pairVars, startVars, fleetVars>>

(***************************************************************************)
(* Bounds: of the descriptor generator, and the number of process          *)
(* instances started side by side.                                         *)
(***************************************************************************)
MaxAts == 2
MaxFields == 5
MaxInstances == 2
MaxOrders == 3
MaxRequests == 3
MaxTicks == 3

(***************************************************************************)
(* JavaScript string primitives.                                           *)
(***************************************************************************)
\* undefined, null and NaN are records of their own, so that they compare (as
\* unequal) with every record the functions return.
Absent == [undefined |-> TRUE]

Null == [null |-> TRUE]

NaN == [nan |-> TRUE]

Digits == <<"0", "1", "2", "3", "4", "5", "6", "7", "8", "9">>

IsDigit(c) == \E d \in 1..10 : Digits[d] = c

DigitValue(c) == (CHOOSE d \in 1..10 : Digits[d] = c) - 1

\* String.prototype.charCodeAt for the characters the inputs are made of.
charCodeAt(c) ==
    CASE IsDigit(c) -> 48 + DigitValue(c)
      [] c = " " -> 32
      [] c = "#" -> 35
      [] c = "+" -> 43
      [] c = "-" -> 45
      [] c = "." -> 46
      [] c = "/" -> 47
      [] c = ":" -> 58
      [] c = "@" -> 64
      [] c = "A" -> 65
      [] c = "B" -> 66
      [] c = "H" -> 72
      [] c = "P" -> 80
      [] c = "T" -> 84
      [] c = "a" -> 97
      [] c = "b" -> 98
      [] c = "c" -> 99
      [] c = "e" -> 101
      [] c = "f" -> 102
      [] c = "h" -> 104
      [] c = "i" -> 105
      [] c = "k" -> 107
      [] c = "l" -> 108
      [] c = "o" -> 111
      [] c = "p" -> 112
      [] c = "r" -> 114
      [] c = "s" -> 115
      [] c = "t" -> 116
      [] c = "u" -> 117
      [] c = "x" -> 120
      [] c = "y" -> 121

\* String.prototype.substring(from) and substring(from, to), 0-based, to exclusive.
substring(s, from, to) == SubSeq(s, from + 1, to)

substringFrom(s, from) == SubSeq(s, from + 1, Len(s))

\* String.prototype.startsWith
startsWith(s, p) == Len(s) >= Len(p) /\ SubSeq(s, 1, Len(p)) = p

\* String.prototype.indexOf for a one-character needle: 0-based, -1 when absent.
indexOf(s, c) ==
    IF \E i \in 1..Len(s) : s[i] = c
    THEN (CHOOSE i \in 1..Len(s) : s[i] = c /\ \A j \in 1..(i - 1) : s[j] # c) - 1
    ELSE -1

\* String.prototype.split for a one-character separator: always at least one piece.
RECURSIVE split(_, _)
split(s, c) ==
    LET i == indexOf(s, c)
    IN  IF i < 0 THEN <<s>>
        ELSE <<substring(s, 0, i)>> \o split(substringFrom(s, i + 1), c)

\* /^(.*):\/\//i.exec(raw): `.*` is greedy, so the match ends at the LAST "://"
\* of the string; the result is the 0-based index of that "://", or -1 (no match).
\* (The inputs hold no line terminator, the only characters `.` refuses.)
protocolMatch(s) ==
    LET at == {i \in 1..(Len(s) - 2) : SubSeq(s, i, i + 2) = <<":", "/", "/">>}
    IN  IF at = {} THEN -1
        ELSE (CHOOSE i \in at : \A j \in at : j <= i) - 1

\* parseInt(str, 10): leading white space, an optional sign, then the longest
\* run of digits; NaN when that run is empty, whatever follows the run is ignored.
RECURSIVE SkipSpaces(_)
SkipSpaces(s) == IF Len(s) > 0 /\ s[1] = " " THEN SkipSpaces(Tail(s)) ELSE s

RECURSIVE DigitRun(_)
DigitRun(s) == IF Len(s) > 0 /\ IsDigit(s[1]) THEN <<s[1]>> \o DigitRun(Tail(s)) ELSE <<>>

RECURSIVE DigitsValue(_)
DigitsValue(ds) ==
    IF ds = <<>> THEN 0
    ELSE 10 * DigitsValue(SubSeq(ds, 1, Len(ds) - 1)) + DigitValue(ds[Len(ds)])

parseInt(str) ==
    LET t == SkipSpaces(str)
        neg == Len(t) > 0 /\ t[1] = "-"
        u == IF Len(t) > 0 /\ t[1] \in {"+", "-"} THEN Tail(t) ELSE t
        ds == DigitRun(u)
    IN  IF ds = <<>> THEN NaN
        ELSE [value |-> IF neg THEN 0 - DigitsValue(ds) ELSE DigitsValue(ds)]

\* Template-literal formatting of a number that is a non-negative integer.
RECURSIVE numberToString(_)
numberToString(n) ==
    IF n < 10 THEN <<Digits[n + 1]>>
    ELSE numberToString(n \div 10) \o <<Digits[(n % 10) + 1]>>

(***************************************************************************)
(* 32-bit integer arithmetic of the JavaScript bitwise operators, computed *)
(* on 16-bit halves so that no intermediate value leaves the 32-bit range. *)
(***************************************************************************)
Half == 65536

\* The signed 32-bit integer (ToInt32) whose upper half is hi (mod 2^16) and
\* whose lower half is lo, 0 <= lo < 2^16.
FromHalves(hi, lo) == (((hi + 32768) % Half) - 32768) * Half + lo

\* Math.abs(h % m) for a 32-bit h: the remainder of JavaScript takes the sign
\* of h. (Written so that h = -2^31 is not negated.)
AbsRem(h, m) == IF h >= 0 THEN h % m ELSE (((0 - (h + 1)) % m) + 1) % m

HashBuckets == 100000

\* hashCode with the shift of its loop one bit short.
HashStep_Shift4(hash, c) ==
    LET lo == ((hash % Half) * 16 - (hash % Half)) + charCodeAt(c)
        hi == ((hash \div Half) * 16 - (hash \div Half)) + (lo \div Half)
    IN  FromHalves(hi, lo % Half)

\* One turn of the loop of hashCode: hash = (hash << 5) - hash + code; hash |= 0.
\* Each half of hash is shifted (times 32) and reduced by itself, the carry of
\* the lower half goes to the upper one, and |= 0 keeps the low 32 bits, signed.
HashStep(hash, c) ==
    LET lo == ((hash % Half) * 32 - (hash % Half)) + charCodeAt(c)
        hi == ((hash \div Half) * 32 - (hash \div Half)) + (lo \div Half)
    IN  FromHalves(hi, lo % Half)

\* The value of hash after the first n turns of the loop over str.
RECURSIVE HashLoop(_, _)
HashLoop(str, n) ==
    IF n = 0 THEN 0 ELSE HashStep(HashLoop(str, n - 1), str[n])

hashCode(str) ==
    IF Len(str) <= 0 THEN 0 ELSE AbsRem(HashLoop(str, Len(str)), HashBuckets)

(***************************************************************************)
(* parseFreeproxy (freeproxy.helpers.ts).                                  *)
(***************************************************************************)
EProxyType_HTTP == <<"h", "t", "t", "p">>

EProxyType_HTTPS == <<"h", "t", "t", "p", "s">>

EProxyType_SOCKS4 == <<"s", "o", "c", "k", "s", "4">>

EProxyType_SOCKS5 == <<"s", "o", "c", "k", "s", "5">>

\* The values of EProxyType (declared in ../proxies, outside the sources at hand).
PROXY_TYPE_KEYS ==
    {EProxyType_HTTP, EProxyType_HTTPS, EProxyType_SOCKS4, EProxyType_SOCKS5}

\* protocolMatch[1] when the expression matched.
protocolStr(r) == substring(r, 0, protocolMatch(r))

\* parseType with the test for 'socks' placed before the test for 'socks4'.
parseType_SocksFirst(r) ==
    IF protocolMatch(r) >= 0
    THEN IF startsWith(protocolStr(r), <<"s", "o", "c", "k", "s">>)
         THEN [type |-> EProxyType_SOCKS5]
         ELSE IF startsWith(protocolStr(r), EProxyType_SOCKS4)
              THEN [type |-> EProxyType_SOCKS4]
         ELSE IF protocolStr(r) \notin PROXY_TYPE_KEYS THEN Absent
         ELSE [type |-> protocolStr(r)]
    ELSE [type |-> EProxyType_HTTP]

\* Lines 42-61: [type |-> the transport type], or Absent when the scheme is refused.
parseType(r) ==
    IF protocolMatch(r) >= 0
    THEN IF startsWith(protocolStr(r), EProxyType_SOCKS4) THEN [type |-> EProxyType_SOCKS4]
         ELSE IF startsWith(protocolStr(r), <<"s", "o", "c", "k", "s">>)
              THEN [type |-> EProxyType_SOCKS5]
         ELSE IF protocolStr(r) \notin PROXY_TYPE_KEYS THEN Absent
         ELSE [type |-> protocolStr(r)]
    ELSE [type |-> EProxyType_HTTP]

\* Lines 57 and 60: protocolMatch[0] is the scheme and its "://".
rawWithoutProtocol(r) ==
    IF protocolMatch(r) >= 0 THEN substringFrom(r, protocolMatch(r) + 3) ELSE r

\* Lines 76-91: user[:pass], cut at the first ':'.
parseAuthStr(authStr) ==
    LET authStrInd == indexOf(authStr, ":")
    IN  IF authStrInd >= 0
        THEN [username |-> substring(authStr, 0, authStrInd),
              password |-> substringFrom(authStr, authStrInd + 1)]
        ELSE [username |-> authStr, password |-> <<>>]

\* Lines 63-95: Absent, or the host string and the authentication of the '@' form.
splitAt(rest) ==
    LET atSplit == split(rest, "@")
    IN  IF Len(atSplit) > 2 THEN Absent
        ELSE IF Len(atSplit) = 2
             THEN [hostStr |-> atSplit[2], auth |-> parseAuthStr(atSplit[1])]
             ELSE [hostStr |-> atSplit[1], auth |-> Null]

\* splitHost taking a host string of three fields as host:port as well.
splitHost_ThreeFields(hostStr, auth) ==
    LET hostStrSplit == split(hostStr, ":")
    IN  CASE Len(hostStrSplit) \in {2, 3} ->
               [hostname |-> hostStrSplit[1], portStr |-> hostStrSplit[2], auth |-> auth]
          [] Len(hostStrSplit) = 4 ->
               [hostname |-> hostStrSplit[1], portStr |-> hostStrSplit[2],
                auth |-> [username |-> hostStrSplit[3], password |-> hostStrSplit[4]]]
          [] OTHER -> Absent

\* Lines 97-129: Absent, or hostname, port string and authentication.
splitHost(hostStr, auth) ==
    LET hostStrSplit == split(hostStr, ":")
    IN  CASE Len(hostStrSplit) = 2 ->
               [hostname |-> hostStrSplit[1], portStr |-> hostStrSplit[2], auth |-> auth]
          [] Len(hostStrSplit) = 4 ->
               [hostname |-> hostStrSplit[1], portStr |-> hostStrSplit[2],
                auth |-> [username |-> hostStrSplit[3], password |-> hostStrSplit[4]]]
          [] OTHER -> Absent

PortMax == 65535

\* Lines 131-147: Absent, or [port |-> the port number]. parseInt does not throw;
\* !port is true of NaN and of 0.
parsePort(portStr) ==
    LET port == parseInt(portStr)
    IN  IF port = NaN \/ port.value = 0 THEN Absent
        ELSE IF port.value < 1 \/ port.value > PortMax THEN Absent
        ELSE [port |-> port.value]

\* hashOf leaving the credentials out of the key.
hashOf_PortOnly(port, auth) == port

\* Lines 149-155.
hashOf(port, auth) ==
    IF auth # Null
    THEN hashCode(numberToString(port) \o <<":">> \o auth.username \o <<":">> \o auth.password)
    ELSE port

\* Line 158.
formatKey(hostname, hash) == hostname \o <<"#">> \o numberToString(hash)

parseFreeproxy(r) ==
    IF Len(r) <= 0 THEN Absent
    ELSE LET type == parseType(r)
             at == splitAt(rawWithoutProtocol(r))
             host == splitHost(at.hostStr, at.auth)
             port == parsePort(host.portStr)
         IN  IF type = Absent THEN Absent
             ELSE IF at = Absent THEN Absent
             ELSE IF host = Absent THEN Absent
             ELSE IF port = Absent THEN Absent
             ELSE [key |-> formatKey(host.hostname, hashOf(port.port, host.auth)),
                   type |-> type.type,
                   address |-> [hostname |-> host.hostname, port |-> port.port],
                   auth |-> host.auth]

(***************************************************************************)
(* Descriptors handed to parseFreeproxy: an optional scheme prefix, then   *)
(* up to MaxAts texts each closed by '@', then up to MaxFields fields      *)
(* joined by ':'.                                                          *)
(***************************************************************************)
Prefixes ==
    {<<>>,
     <<"h", "t", "t", "p", ":", "/", "/">>,
     <<"s", "o", "c", "k", "s", "4", "a", ":", "/", "/">>,
     <<"s", "o", "c", "k", "s", "5", ":", "/", "/">>,
     <<"s", "o", "c", "k", "s", ":", "/", "/">>,
     <<"f", "t", "p", ":", "/", "/">>,
     <<"H", "T", "T", "P", ":", "/", "/">>,
     <<":", "/", "/">>}

AuthTexts ==
    {<<"A", "a", ":", "p">>,
     <<"B", "B", ":", "p">>,
     <<"u">>,
     <<"a", ":", "b", ":", "c">>,
     <<"s", ":", "/", "/", "x">>}

PortTexts ==
    {<<"8", "0">>, <<"0">>, <<"6", "5", "5", "3", "5">>, <<"6", "5", "5", "3", "6">>,
     <<"8", "x">>, <<>>, <<"x">>, <<" ", "+", "8">>}

FieldTexts(k) ==
    IF k = 1 THEN {<<"h">>}
    ELSE IF k = 2 THEN PortTexts
    ELSE {<<"A", "a">>, <<"p">>}

InitParse ==
    /\ raw = <<>>
    /\ stage = "prefix"
    /\ nAt = 0
    /\ nFields = 0
    /\ result = Absent
    /\ pairRaw = <<>>
    /\ pairResult = <<>>
    /\ config = <<>>
    /\ env = <<>>
    /\ pc = <<>>
    /\ error = <<>>
    /\ localApps = <<>>
    /\ app = <<>>
    /\ subscribed = <<>>
    /\ tasks = <<>>
    /\ desiredCount = <<>>
    /\ liveCount = <<>>
    /\ orders = <<>>
    /\ applied = {}
    /\ events = <<>>
    /\ cursor = <<>>
    /\ cache = <<>>
    /\ submitted = 0
    /\ token = 0
    /\ tokenExpirationTs = 0
    /\ loginPromise = 0
    /\ logins = <<>>
    /\ now = 0
    /\ requests = <<>>

ChoosePrefix ==
    /\ stage = "prefix"
    /\ \E p \in Prefixes : raw' = p
    /\ stage' = "auth"
    /\ UNCHANGED <<nAt, nFields, result>>
    /\ UNCHANGED otherThanParse

AddAuth ==
    /\ stage = "auth"
    /\ nAt < MaxAts
    /\ \E a \in AuthTexts : raw' = raw \o a \o <<"@">>
    /\ nAt' = nAt + 1
    /\ UNCHANGED <<stage, nFields, result>>
    /\ UNCHANGED otherThanParse

AddField ==
    /\ stage \in {"auth", "host"}
    /\ nFields < MaxFields
    /\ \E f \in FieldTexts(nFields + 1) :
          raw' = raw \o (IF nFields > 0 THEN <<":">> ELSE <<>>) \o f
    /\ nFields' = nFields + 1
    /\ stage' = "host"
    /\ UNCHANGED <<nAt, result>>
    /\ UNCHANGED otherThanParse

\* The call parseFreeproxy(raw).
Parse ==
    /\ stage \in {"prefix", "auth", "host"}
    /\ result' = parseFreeproxy(raw)
    /\ stage' = "parsed"
    /\ UNCHANGED <<raw, nAt, nFields>>
    /\ UNCHANGED otherThanParse

NextParse == ChoosePrefix \/ AddAuth \/ AddField \/ Parse

SpecParse == InitParse /\ [][NextParse]_vars

(***************************************************************************)
(* Two descriptors parsed one after the other, as when a list of free      *)
(* proxies is ingested: the pairs are drawn from PairInputs.               *)
(***************************************************************************)
Pending == [pending |-> TRUE]

PairUsers == {<<"A", "a">>, <<"B", "B">>, <<"u">>}

PairPasswords == {<<"p">>, <<>>}

PairPorts == {<<"8", "0">>, <<"8">>}

PairInputs ==
    {u \o <<":">> \o w \o <<"@", "h", ":">> \o n :
        u \in PairUsers, w \in PairPasswords, n \in PairPorts}
    \cup {<<"h", ":">> \o n \o <<":">> \o u \o <<":">> \o w :
        u \in PairUsers, w \in PairPasswords, n \in PairPorts}
    \cup {u \o <<"@", "h", ":">> \o n : u \in PairUsers, n \in PairPorts}
    \cup {<<"h", ":">> \o n : n \in PairPorts}
    \cup {<<"s", "o", "c", "k", "s", "5", ":", "/", "/",
            "a", "l", "i", "c", "e", ":", "s", "e", "c", "r", "e", "t", "@",
            "1", "0", ".", "0", ".", "0", ".", "5", ":", "1", "0", "8", "0">>}

InitPair ==
    /\ pairRaw \in PairInputs \X PairInputs
    /\ pairResult = <<Pending, Pending>>
    /\ raw = <<>>
    /\ stage = "prefix"
    /\ nAt = 0
    /\ nFields = 0
    /\ result = Absent
    /\ config = <<>>
    /\ env = <<>>
    /\ pc = <<>>
    /\ error = <<>>
    /\ localApps = <<>>
    /\ app = <<>>
    /\ subscribed = <<>>
    /\ tasks = <<>>
    /\ desiredCount = <<>>
    /\ liveCount = <<>>
    /\ orders = <<>>
    /\ applied = {}
    /\ events = <<>>
    /\ cursor = <<>>
    /\ cache = <<>>
    /\ submitted = 0
    /\ token = 0
    /\ tokenExpirationTs = 0
    /\ loginPromise = 0
    /\ logins = <<>>
    /\ now = 0
    /\ requests = <<>>

ParseLeft ==
    /\ pairResult[1] = Pending
    /\ pairResult' = [pairResult EXCEPT ![1] = parseFreeproxy(pairRaw[1])]
    /\ UNCHANGED pairRaw
    /\ UNCHANGED otherThanPair

ParseRight ==
    /\ pairResult[2] = Pending
    /\ pairResult' = [pairResult EXCEPT ![2] = parseFreeproxy(pairRaw[2])]
    /\ UNCHANGED pairRaw
    /\ UNCHANGED otherThanPair

NextPair == ParseLeft \/ ParseRight

SpecPair == InitPair /\ [][NextPair]_vars

(***************************************************************************)
(* The start command (start.command.ts): command(config, logger), run by   *)
(* each process instance. An instance's inputs are its command-line        *)
(* options (config), the value getEnvStorageType returns for it (that      *)
(* function is defined outside the sources, so its result is an input) and *)
(* the DISTRIBUTED_MODE variable of its environment.                       *)
(***************************************************************************)
Instances == 1..MaxInstances

Undefined == "undefined"

Flags == {"standalone", "master", "commander", "frontend", "refreshAll"}

RefreshModules ==
    {"refreshConnectors", "refreshFreeproxies", "refreshMetrics", "refreshProxies",
     "refreshTasks"}

\* The choices of --storage and of --distributed (lines 261-274).
StorageChoices == {"file", "distributed", "memory"}

DistributedChoices == {"read", "write", "both"}

\* The config object of an instance started with the flags fs (a set of option
\* names), --distributed d and --test t; an option not given is undefined (falsy).
Options(fs, d, t) ==
    [standalone |-> "standalone" \in fs,
     master |-> "master" \in fs,
     commander |-> "commander" \in fs,
     frontend |-> "frontend" \in fs,
     refreshAll |-> "refreshAll" \in fs,
     refreshConnectors |-> "refreshConnectors" \in fs,
     refreshFreeproxies |-> "refreshFreeproxies" \in fs,
     refreshMetrics |-> "refreshMetrics" \in fs,
     refreshProxies |-> "refreshProxies" \in fs,
     refreshTasks |-> "refreshTasks" \in fs,
     storage |-> Undefined,
     distributed |-> d,
     test |-> t]

\* The refresh options tried together with the other flags: none, one, or all.
RefreshOptionSets == {{}} \cup {{m} : m \in RefreshModules} \cup {RefreshModules}

AllOptions ==
    {Options(fs \cup rs, d, t) :
        fs \in SUBSET Flags, rs \in RefreshOptionSets,
        d \in DistributedChoices \cup {Undefined}, t \in BOOLEAN}

AllEnvs ==
    [storageType : StorageChoices \cup {Undefined, ""},
     DISTRIBUTED_MODE : DistributedChoices \cup {Undefined, "other"}]

\* Instances of a cluster on the distributed storage.
ClusterOptions ==
    {Options(fs, d, FALSE) :
        fs \in {{}, {"master"}}, d \in DistributedChoices \cup {Undefined}}

ClusterEnvs == [storageType : {"distributed"}, DISTRIBUTED_MODE : {Undefined}]

\* !config.storage || config.storage.length <= 0
NoStorage(c) == c.storage = Undefined \/ c.storage = ""

\* Lines 37-38.
ReadEnv(c, e) ==
    [c EXCEPT !.storage = e.storageType,
              !.distributed = IF c.distributed # Undefined THEN c.distributed
                              ELSE IF e.DISTRIBUTED_MODE # Undefined THEN e.DISTRIBUTED_MODE
                              ELSE "both"]

\* Lines 40-52.
DefaultStandalone(c) ==
    IF /\ ~c.standalone /\ ~c.master /\ ~c.commander /\ ~c.frontend /\ ~c.refreshAll
       /\ ~c.refreshConnectors /\ ~c.refreshFreeproxies /\ ~c.refreshMetrics
       /\ ~c.refreshProxies /\ ~c.refreshTasks
    THEN [c EXCEPT !.standalone = TRUE]
    ELSE c

\* Lines 54-63 without line 58: standalone leaves the refresh modules alone.
ApplyStandalone_KeepsRefresh(c) ==
    IF c.standalone
    THEN [c EXCEPT !.commander = TRUE, !.frontend = TRUE, !.master = TRUE,
                   !.storage = IF NoStorage(c) THEN "file" ELSE c.storage]
    ELSE c

\* Lines 54-63.
ApplyStandalone(c) ==
    IF c.standalone
    THEN [c EXCEPT !.commander = TRUE, !.frontend = TRUE, !.master = TRUE,
                   !.refreshAll = TRUE,
                   !.storage = IF NoStorage(c) THEN "file" ELSE c.storage]
    ELSE c

\* Lines 65-71.
ApplyRefreshAll(c) ==
    IF c.refreshAll
    THEN [c EXCEPT !.refreshConnectors = TRUE, !.refreshFreeproxies = TRUE,
                   !.refreshMetrics = TRUE, !.refreshProxies = TRUE,
                   !.refreshTasks = TRUE]
    ELSE c

NoError == ""

ErrorStorage == "Storage type should be set if commander is enabled"

ErrorTest == "test connectors can only be used with commander and refresh on the same instance"

\* Lines 73-81: the error thrown, if any.
CheckOptions(c) ==
    IF c.commander
    THEN IF NoStorage(c) THEN ErrorStorage ELSE NoError
    ELSE IF c.test THEN ErrorTest ELSE NoError

\* Lines 36-71.
ResolveOptions(c, e) == ApplyRefreshAll(ApplyStandalone(DefaultStandalone(ReadEnv(c, e))))

\* The tests of lines 144 and 160 with the modes 'read' and 'write' swapped.
ConsumesOrders_Swapped(c) == c.distributed = "read" \/ c.distributed = "both"

ConsumesEvents_Swapped(c) == c.distributed = "write" \/ c.distributed = "both"

\* Lines 144 and 160: the queues an instance on the distributed storage consumes.
ConsumesOrders(c) == c.distributed = "write" \/ c.distributed = "both"

ConsumesEvents(c) == c.distributed = "read" \/ c.distributed = "both"

\* Lines 141-177.
Microservices(c) ==
    IF c.storage = "distributed"
    THEN (IF ConsumesOrders(c) THEN {"orders"} ELSE {})
         \cup (IF ConsumesEvents(c) THEN {"events"} ELSE {})
    ELSE {}

\* Lines 36-81: the options are updated and checked; a throw ends the command.
Validate(i) ==
    /\ pc[i] = "new"
    /\ config' = [config EXCEPT ![i] = ResolveOptions(config[i], env[i])]
    /\ error' = [error EXCEPT ![i] = CheckOptions(config'[i])]
    /\ pc' = [pc EXCEPT ![i] = IF error'[i] = NoError THEN "checked" ELSE "failed"]
    /\ UNCHANGED <<env, localApps, app, subscribed>>
    /\ UNCHANGED otherThanStart

\* Lines 83-121: with --test, the local datacenter and the local proxy are started.
StartLocalApps(i) ==
    /\ pc[i] = "checked"
    /\ localApps' = [localApps EXCEPT ![i] =
                        IF config[i].test THEN {"datacenter", "proxy"} ELSE {}]
    /\ pc' = [pc EXCEPT ![i] = "local"]
    /\ UNCHANGED <<config, env, error, app, subscribed>>
    /\ UNCHANGED otherThanStart

\* Lines 123-139: NestFactory.create.
CreateApp(i) ==
    /\ pc[i] = "local"
    /\ app' = [app EXCEPT ![i] = TRUE]
    /\ pc' = [pc EXCEPT ![i] = "created"]
    /\ UNCHANGED <<config, env, error, localApps, subscribed>>
    /\ UNCHANGED otherThanStart

\* Lines 141-177: connectMicroservice for each queue, then startAllMicroservices.
StartMicroservices(i) ==
    /\ pc[i] = "created"
    /\ subscribed' = [subscribed EXCEPT ![i] = Microservices(config[i])]
    /\ pc' = [pc EXCEPT ![i] = "connected"]
    /\ UNCHANGED <<config, env, error, localApps, app>>
    /\ UNCHANGED otherThanStart

\* Lines 179-198: the handler of the stop signal is registered.
RegisterSigstop(i) ==
    /\ pc[i] = "connected"
    /\ pc' = [pc EXCEPT ![i] = "armed"]
    /\ UNCHANGED <<config, env, error, localApps, app, subscribed>>
    /\ UNCHANGED otherThanStart

\* Lines 200-204: app.listen or app.init.
Listen(i) ==
    /\ pc[i] = "armed"
    /\ pc' = [pc EXCEPT ![i] = "running"]
    /\ UNCHANGED <<config, env, error, localApps, app, subscribed>>
    /\ UNCHANGED otherThanStart

\* Lines 180-193: on the stop signal the application and its microservices are
\* closed, then the local datacenter and proxy.
Sigstop(i) ==
    /\ pc[i] \in {"armed", "running"}
    /\ app' = [app EXCEPT ![i] = FALSE]
    /\ subscribed' = [subscribed EXCEPT ![i] = {}]
    /\ localApps' = [localApps EXCEPT ![i] = {}]
    /\ pc' = [pc EXCEPT ![i] = "closed"]
    /\ UNCHANGED <<config, env, error>>
    /\ UNCHANGED otherThanStart

NextStart ==
    \E i \in Instances :
        \/ Validate(i)
        \/ StartLocalApps(i)
        \/ CreateApp(i)
        \/ StartMicroservices(i)
        \/ RegisterSigstop(i)
        \/ Listen(i)
        \/ Sigstop(i)

\* One instance, started with any options in any environment.
InitStart ==
    /\ \E o \in AllOptions :
          config = [i \in Instances |-> IF i = 1 THEN o ELSE Options({}, Undefined, FALSE)]
    /\ \E e \in AllEnvs :
          env = [i \in Instances |->
                    IF i = 1 THEN e
                    ELSE [storageType |-> Undefined, DISTRIBUTED_MODE |-> Undefined]]
    /\ pc = [i \in Instances |-> IF i = 1 THEN "new" ELSE "off"]
    /\ error = [i \in Instances |-> NoError]
    /\ localApps = [i \in Instances |-> {}]
    /\ app = [i \in Instances |-> FALSE]
    /\ subscribed = [i \in Instances |-> {}]
    /\ raw = <<>>
    /\ stage = "prefix"
    /\ nAt = 0
    /\ nFields = 0
    /\ result = Absent
    /\ pairRaw = <<>>
    /\ pairResult = <<>>
    /\ tasks = <<>>
    /\ desiredCount = <<>>
    /\ liveCount = <<>>
    /\ orders = <<>>
    /\ applied = {}
    /\ events = <<>>
    /\ cursor = <<>>
    /\ cache = <<>>
    /\ submitted = 0
    /\ token = 0
    /\ tokenExpirationTs = 0
    /\ loginPromise = 0
    /\ logins = <<>>
    /\ now = 0
    /\ requests = <<>>

SpecStart == InitStart /\ [][NextStart]_vars

\* MaxInstances instances started side by side on the distributed storage.
InitCluster ==
    /\ config \in [Instances -> ClusterOptions]
    /\ env \in [Instances -> ClusterEnvs]
    /\ pc = [i \in Instances |-> "new"]
    /\ error = [i \in Instances |-> NoError]
    /\ localApps = [i \in Instances |-> {}]
    /\ app = [i \in Instances |-> FALSE]
    /\ subscribed = [i \in Instances |-> {}]
    /\ raw = <<>>
    /\ stage = "prefix"
    /\ nAt = 0
    /\ nFields = 0
    /\ result = Absent
    /\ pairRaw = <<>>
    /\ pairResult = <<>>
    /\ tasks = <<>>
    /\ desiredCount = <<>>
    /\ liveCount = <<>>
    /\ orders = <<>>
    /\ applied = {}
    /\ events = <<>>
    /\ cursor = <<>>
    /\ cache = <<>>
    /\ submitted = 0
    /\ token = 0
    /\ tokenExpirationTs = 0
    /\ loginPromise = 0
    /\ logins = <<>>
    /\ now = 0
    /\ requests = <<>>

SpecCluster == InitCluster /\ [][NextStart]_vars


(***************************************************************************)
(* The fleet orchestration engine of the design document (sections 3, 4.3, *)
(* 4.4, 4.5 and 5): its code is not among the sources, so this part is     *)
(* written from the document. One connector's proxies are counted          *)
(* (liveCount); the writer applies the orders of one queue to the storage  *)
(* and publishes one event per applied order; every instance updates its   *)
(* cache only when it consumes an event.                                   *)
(***************************************************************************)
Connectors == {"c1"}

Replicas == {"i1", "i2"}

Keys == 1..MaxOrders

OperationClasses == {"create", "remove"}

NonTerminal == {"CREATED", "RUNNING"}

Terminal == {"SUCCEEDED", "FAILED", "CANCELLED"}

\* Configuration (section 6): provider batch size cap, task retry limit, and
\* the number of steps of a plan.
providerMaxBatch == 2

maxRetries == 2

planSteps == 2

\* The desired counts a user may set.
DesiredCounts == 0..2

NoTask == [none |-> TRUE]

NewTask(c, class, count) ==
    [connector |-> c, class |-> class, count |-> count, status |-> "CREATED",
     step |-> 0, retries |-> 0]

\* Section 4.4, step 1.
deficit(view, c) == view.desiredCount[c] - view.liveCount[c]

\* "an active task of the class exists for the connector", in a view.
ActiveTasks(view, c, class) ==
    {k \in Keys : /\ view.tasks[k] # NoTask
                  /\ view.tasks[k].connector = c
                  /\ view.tasks[k].class = class
                  /\ view.tasks[k].status \in NonTerminal}

Min(a, b) == IF a <= b THEN a ELSE b

\* Section 4.4, steps 2 and 3: the task a tick asks for, or NoTask.
Reconcile(view, c) ==
    IF deficit(view, c) > 0 /\ ActiveTasks(view, c, "create") = {}
    THEN NewTask(c, "create", Min(deficit(view, c), providerMaxBatch))
    ELSE IF deficit(view, c) < 0 /\ ActiveTasks(view, c, "remove") = {}
    THEN NewTask(c, "remove", 0 - deficit(view, c))
    ELSE NoTask

\* Section 4.3: the snapshot of task t after one executeStep with the outcome o.
StepResult(t, o) ==
    CASE o = "completed" /\ t.step + 1 < planSteps ->
            [t EXCEPT !.status = "RUNNING", !.step = t.step + 1, !.retries = 0]
      [] o = "completed" /\ t.step + 1 >= planSteps ->
            [t EXCEPT !.status = "SUCCEEDED", !.step = t.step + 1]
      [] o = "retryable" /\ t.retries + 1 < maxRetries ->
            [t EXCEPT !.status = "RUNNING", !.retries = t.retries + 1]
      [] o = "retryable" /\ t.retries + 1 >= maxRetries ->
            [t EXCEPT !.status = "FAILED", !.retries = t.retries + 1]
      [] o = "fatal" -> [t EXCEPT !.status = "FAILED"]

StepOutcomes == {"completed", "retryable", "fatal"}

\* The storage as a view.
Storage == [tasks |-> tasks, desiredCount |-> desiredCount, liveCount |-> liveCount]

\* The create-tasks that can be in flight for connector c when the observation
\* starts: none, or the one task the reconciler created for a deficit of d,
\* after some of its steps and retries.
TasksInFlight(c, d) ==
    {NoTask} \cup
    {[NewTask(c, "create", Min(d, providerMaxBatch))
        EXCEPT !.status = "RUNNING", !.step = s, !.retries = r] :
        s \in 0..(planSteps - 1), r \in 0..(maxRetries - 1)}

\* The observation starts with no proxy alive, the caches equal to the
\* storage, and at most one task, created under key 1, in flight.
InitFleet ==
    /\ desiredCount \in [Connectors -> DesiredCounts]
    /\ liveCount = [c \in Connectors |-> 0]
    /\ \E c \in Connectors :
          \E t \in TasksInFlight(c, desiredCount[c]) :
             /\ t # NoTask => desiredCount[c] > 0 /\ (t.step > 0 \/ t.retries > 0)
             /\ tasks = [k \in Keys |-> IF k = 1 THEN t ELSE NoTask]
             /\ applied = IF t = NoTask THEN {} ELSE {1}
    /\ orders = <<>>
    /\ events = <<>>
    /\ cursor = [i \in Replicas |-> 0]
    /\ cache = [i \in Replicas |-> Storage]
    /\ submitted = 0
    /\ token = 0
    /\ tokenExpirationTs = 0
    /\ loginPromise = 0
    /\ logins = <<>>
    /\ now = 0
    /\ requests = <<>>
    /\ raw = <<>>
    /\ stage = "prefix"
    /\ nAt = 0
    /\ nFields = 0
    /\ result = Absent
    /\ pairRaw = <<>>
    /\ pairResult = <<>>
    /\ config = <<>>
    /\ env = <<>>
    /\ pc = <<>>
    /\ error = <<>>
    /\ localApps = <<>>
    /\ app = <<>>
    /\ subscribed = <<>>

\* The keys of the orders submitted so far.
UsedKeys == applied \cup {orders[n].key : n \in DOMAIN orders}

\* The keys a caller assigns: one used before (a duplicate), or the next new
\* one (new keys are numbered in the order of their first use).
CallerKeys == {k \in Keys : k \in UsedKeys \/ (\A j \in 1..(k - 1) : j \in UsedKeys)}

\* Section 4.5: any instance may submit an order, with a key its caller assigns.
Submit(o) ==
    /\ submitted < MaxOrders
    /\ \E k \in CallerKeys : orders' = Append(orders, [o EXCEPT !.key = k])
    /\ submitted' = submitted + 1

\* Section 4.4: a tick of instance i for connector c reads the instance's cache
\* and submits the corrective order; nothing is applied to local memory.
ReconcileTick(i, c) ==
    /\ Reconcile(cache[i], c) # NoTask
    /\ Submit([key |-> 0, operation |-> "createTask", task |-> Reconcile(cache[i], c),
               id |-> 0, connector |-> c, desired |-> 0])
    /\ UNCHANGED <<tasks, desiredCount, liveCount, applied, events, cursor, cache>>
    /\ UNCHANGED otherThanFleet

\* An instance that writes the result of a step to its own cache when it
\* submits the order.
TaskStep_Optimistic(i, k) ==
    /\ cache[i].tasks[k] # NoTask
    /\ cache[i].tasks[k].status \in NonTerminal
    /\ \E o \in StepOutcomes :
          /\ Submit([key |-> 0, operation |-> "updateTask",
                     task |-> StepResult(cache[i].tasks[k], o), id |-> k,
                     connector |-> cache[i].tasks[k].connector, desired |-> 0])
          /\ cache' = [cache EXCEPT ![i].tasks[k] = StepResult(cache[i].tasks[k], o)]
    /\ UNCHANGED <<tasks, desiredCount, liveCount, applied, events, cursor>>
    /\ UNCHANGED otherThanFleet

\* Section 4.3: a scheduler tick of instance i executes the current step of a
\* task its cache shows non-terminal, and submits the resulting snapshot.
ExecuteStep(i, k, o) ==
    /\ cache[i].tasks[k] # NoTask
    /\ cache[i].tasks[k].status \in NonTerminal
    /\ Submit([key |-> 0, operation |-> "updateTask",
               task |-> StepResult(cache[i].tasks[k], o), id |-> k,
               connector |-> cache[i].tasks[k].connector, desired |-> 0])
    /\ UNCHANGED <<tasks, desiredCount, liveCount, applied, events, cursor, cache>>
    /\ UNCHANGED otherThanFleet

TaskStep(i, k) == \E o \in StepOutcomes : ExecuteStep(i, k, o)

\* A step during which no provider call fails.
StepCompleted(i, k) == ExecuteStep(i, k, "completed")

\* A user changes the desired proxy count of a connector.
SetDesired(c) ==
    /\ \E n \in DesiredCounts :
          /\ n # desiredCount[c]
          /\ Submit([key |-> 0, operation |-> "setDesired", task |-> NoTask, id |-> 0,
                     connector |-> c, desired |-> n])
    /\ UNCHANGED <<tasks, desiredCount, liveCount, applied, events, cursor, cache>>
    /\ UNCHANGED otherThanFleet

\* The proxies a task produces or removes when it succeeds.
LiveAfter(t, live) ==
    IF t.status # "SUCCEEDED" THEN live
    ELSE IF t.class = "create" THEN live + t.count
    ELSE IF live >= t.count THEN live - t.count
    ELSE 0

\* A writer that stores the result of a step whatever the task's status is.
TasksAfter_NoDiscard(o) ==
    CASE o.operation = "createTask" -> [tasks EXCEPT ![o.key] = o.task]
      [] o.operation = "updateTask" /\ tasks[o.id] # NoTask ->
            [tasks EXCEPT ![o.id] = o.task]
      [] OTHER -> tasks

\* What applying the order o does to the tasks of the storage: a new task takes
\* the order's key as identifier; the result of a step of a task that is
\* already terminal is discarded.
TasksAfter(o) ==
    CASE o.operation = "createTask" -> [tasks EXCEPT ![o.key] = o.task]
      [] o.operation = "updateTask" /\ tasks[o.id].status \in NonTerminal ->
            [tasks EXCEPT ![o.id] = o.task]
      [] OTHER -> tasks

\* A writer that keeps no memory of the keys it has applied.
Duplicate_Never(o) == FALSE

\* Sections 4.5 and 7: the order carries a key that was applied before.
Duplicate(o) == o.key \in applied

\* Section 4.5: the writer takes the orders in delivery order; an order whose
\* key was applied before is a silent no-op; an applied order changes the
\* storage and is published as one event carrying the resulting snapshots.
WriterApply ==
    /\ orders # <<>>
    /\ orders' = Tail(orders)
    /\ LET o == Head(orders)
       IN  IF Duplicate(o)
           THEN UNCHANGED <<tasks, desiredCount, liveCount, applied, events>>
           ELSE /\ applied' = applied \cup {o.key}
                /\ tasks' = TasksAfter(o)
                /\ desiredCount' = IF o.operation = "setDesired"
                                   THEN [desiredCount EXCEPT ![o.connector] = o.desired]
                                   ELSE desiredCount
                /\ liveCount' = IF o.operation = "updateTask" /\ tasks'[o.id] # tasks[o.id]
                                THEN [liveCount EXCEPT ![o.connector] =
                                         LiveAfter(tasks'[o.id], liveCount[o.connector])]
                                ELSE liveCount
                /\ events' = Append(events,
                                [key |-> o.key,
                                 id |-> IF o.operation = "createTask" THEN o.key ELSE o.id,
                                 task |-> IF o.operation = "createTask" THEN tasks'[o.key]
                                          ELSE IF o.operation = "updateTask" THEN tasks'[o.id]
                                          ELSE NoTask,
                                 connector |-> o.connector,
                                 desiredCount |-> desiredCount'[o.connector],
                                 liveCount |-> liveCount'[o.connector]])
    /\ UNCHANGED <<cursor, cache, submitted>>
    /\ UNCHANGED otherThanFleet

\* The cache of an instance after the event e.
CacheAfter(view, e) ==
    [tasks |-> IF e.task = NoTask THEN view.tasks ELSE [view.tasks EXCEPT ![e.id] = e.task],
     desiredCount |-> [view.desiredCount EXCEPT ![e.connector] = e.desiredCount],
     liveCount |-> [view.liveCount EXCEPT ![e.connector] = e.liveCount]]

\* Section 4.5: an instance consumes the next event of the stream.
ConsumeEvent(i) ==
    /\ cursor[i] < Len(events)
    /\ cursor' = [cursor EXCEPT ![i] = cursor[i] + 1]
    /\ cache' = [cache EXCEPT ![i] = CacheAfter(cache[i], events[cursor[i] + 1])]
    /\ UNCHANGED <<tasks, desiredCount, liveCount, orders, applied, events, submitted>>
    /\ UNCHANGED otherThanFleet

NextFleet ==
    \/ \E i \in Replicas, c \in Connectors : ReconcileTick(i, c)
    \/ \E i \in Replicas, k \in Keys : TaskStep(i, k)
    \/ \E c \in Connectors : SetDesired(c)
    \/ WriterApply
    \/ \E i \in Replicas : ConsumeEvent(i)

SpecFleet == InitFleet /\ [][NextFleet]_vars

\* The engine while no user changes a desired count.
NextEngine ==
    \/ \E i \in Replicas, c \in Connectors : ReconcileTick(i, c)
    \/ \E i \in Replicas, k \in Keys : TaskStep(i, k)
    \/ WriterApply
    \/ \E i \in Replicas : ConsumeEvent(i)

SpecEngine == InitFleet /\ [][NextEngine]_vars

\* Section 6: the orders channel delivers at least once; the broker delivers
\* again an order that waits in the queue.
RedeliverOrder ==
    /\ submitted < MaxOrders
    /\ \E n \in DOMAIN orders : orders' = Append(orders, orders[n])
    /\ submitted' = submitted + 1
    /\ UNCHANGED <<tasks, desiredCount, liveCount, applied, events, cursor, cache>>
    /\ UNCHANGED otherThanFleet

\* The engine on a broker that redelivers orders.
NextDelivery ==
    \/ \E i \in Replicas, c \in Connectors : ReconcileTick(i, c)
    \/ \E i \in Replicas, k \in Keys : TaskStep(i, k)
    \/ RedeliverOrder
    \/ WriterApply
    \/ \E i \in Replicas : ConsumeEvent(i)

SpecDelivery == InitFleet /\ [][NextDelivery]_vars

\* The engine while no provider call fails, every loop being scheduled fairly.
NextCalm ==
    \/ \E i \in Replicas, c \in Connectors : ReconcileTick(i, c)
    \/ \E i \in Replicas, k \in Keys : StepCompleted(i, k)
    \/ \E c \in Connectors : SetDesired(c)
    \/ WriterApply
    \/ \E i \in Replicas : ConsumeEvent(i)

FairCalm ==
    /\ \A i \in Replicas, c \in Connectors : WF_vars(ReconcileTick(i, c))
    /\ \A i \in Replicas, k \in Keys : WF_vars(StepCompleted(i, k))
    /\ WF_vars(WriterApply)
    /\ \A i \in Replicas : WF_vars(ConsumeEvent(i))

SpecCalm == InitFleet /\ [][NextCalm]_vars /\ FairCalm


(***************************************************************************)
(* AzureApi: the management client logs in before a request when its token *)
(* has expired. A run of the request interceptor up to its await, and the  *)
(* settling of a login together with the continuations waiting for it, are *)
(* single steps: nothing else runs in between in one JavaScript thread.    *)
(***************************************************************************)
Requests == 1..MaxRequests

\* `token' is undefined; `loginPromise' is undefined.
NoToken == 0

NoPromise == 0

\* expires_in of a token response, in seconds.
ExpiresIn == {0, 1, 2}

SecondMs == 1000

\* Date.now() at construction and the time between two events.
StartMs == 1000

TickMs == 1000

\* A login call is identified by its position in `logins'; the access token it
\* returns is identified by the login.
InFlight(p) == p \in DOMAIN logins /\ logins[p] = "pending"

Idle == [state |-> "idle", login |-> NoPromise, bearer |-> NoToken]

\* An interceptor that starts a login whenever the token has expired.
MustLogin_Always == TRUE

\* if (!this.loginPromise)
MustLogin == loginPromise = NoPromise

\* if (this.tokenExpirationTs < Date.now())
Expired == tokenExpirationTs < now

InitAzure ==
    /\ token = NoToken
    /\ tokenExpirationTs = 0
    /\ loginPromise = NoPromise
    /\ logins = <<>>
    /\ now = StartMs
    /\ requests = [r \in Requests |-> Idle]
    /\ raw = <<>>
    /\ stage = "prefix"
    /\ nAt = 0
    /\ nFields = 0
    /\ result = Absent
    /\ pairRaw = <<>>
    /\ pairResult = <<>>
    /\ config = <<>>
    /\ env = <<>>
    /\ pc = <<>>
    /\ error = <<>>
    /\ localApps = <<>>
    /\ app = <<>>
    /\ subscribed = <<>>
    /\ tasks = <<>>
    /\ desiredCount = <<>>
    /\ liveCount = <<>>
    /\ orders = <<>>
    /\ applied = {}
    /\ events = <<>>
    /\ cursor = <<>>
    /\ cache = <<>>
    /\ submitted = 0

\* The request interceptor of a management request r, up to its await or, with
\* a valid token, to the end. Awaiting a promise that is already rejected
\* throws at once.
Request(r) ==
    /\ requests[r].state = "idle"
    /\ IF Expired
       THEN /\ IF MustLogin
               THEN /\ logins' = Append(logins, "pending")
                    /\ loginPromise' = Len(logins) + 1
               ELSE UNCHANGED <<logins, loginPromise>>
            /\ requests' = [requests EXCEPT ![r] =
                  [state |-> IF logins'[loginPromise'] = "rejected" THEN "failed" ELSE "waiting",
                   login |-> loginPromise', bearer |-> NoToken]]
       ELSE /\ requests' = [requests EXCEPT ![r] =
                  [state |-> "sent", login |-> NoPromise, bearer |-> token]]
            /\ UNCHANGED <<logins, loginPromise>>
    /\ UNCHANGED <<token, tokenExpirationTs, now>>
    /\ UNCHANGED otherThanAzure

\* A failed login whose waiting requests are sent all the same.
LoginFails_SendsAnyway(p) ==
    /\ InFlight(p)
    /\ logins' = [logins EXCEPT ![p] = "rejected"]
    /\ requests' = [r \in Requests |->
          IF requests[r].state = "waiting" /\ requests[r].login = p
          THEN [requests[r] EXCEPT !.state = "sent", !.bearer = token]
          ELSE requests[r]]
    /\ UNCHANGED <<token, tokenExpirationTs, loginPromise, now>>
    /\ UNCHANGED otherThanAzure

\* login(): the token endpoint answers; the fields are set, the promise is
\* cleared and resolved, and the requests awaiting it set their header and go.
LoginSucceeds(p) ==
    /\ InFlight(p)
    /\ \E e \in ExpiresIn : tokenExpirationTs' = now + e * SecondMs
    /\ token' = p
    /\ loginPromise' = NoPromise
    /\ logins' = [logins EXCEPT ![p] = "resolved"]
    /\ requests' = [r \in Requests |->
          IF requests[r].state = "waiting" /\ requests[r].login = p
          THEN [requests[r] EXCEPT !.state = "sent", !.bearer = token']
          ELSE requests[r]]
    /\ UNCHANGED now
    /\ UNCHANGED otherThanAzure

\* login(): the post throws; the promise is rejected, no field is written, and
\* the interceptors awaiting it throw.
LoginFails(p) ==
    /\ InFlight(p)
    /\ logins' = [logins EXCEPT ![p] = "rejected"]
    /\ requests' = [r \in Requests |->
          IF requests[r].state = "waiting" /\ requests[r].login = p
          THEN [requests[r] EXCEPT !.state = "failed"]
          ELSE requests[r]]
    /\ UNCHANGED <<token, tokenExpirationTs, loginPromise, now>>
    /\ UNCHANGED otherThanAzure

\* Time passes.
Tick ==
    /\ now < StartMs + MaxTicks * TickMs
    /\ now' = now + TickMs
    /\ UNCHANGED <<token, tokenExpirationTs, loginPromise, logins, requests>>
    /\ UNCHANGED otherThanAzure

NextAzure ==
    \/ \E r \in Requests : Request(r)
    \/ \E p \in 1..MaxRequests : LoginSucceeds(p)
    \/ \E p \in 1..MaxRequests : LoginFails(p)
    \/ Tick

SpecAzure == InitAzure /\ [][NextAzure]_vars


(***************************************************************************)
(* Notions the properties are stated with, computed from the descriptor    *)
(* itself and not from the functions above.                                *)
(***************************************************************************)
CountChar(s, c) == Cardinality({i \in 1..Len(s) : s[i] = c})

\* The text after the first (and, when CountChar is 1, only) '@', or all of it.
HostPart(rest) ==
    IF CountChar(rest, "@") = 0 THEN rest
    ELSE LET i == CHOOSE k \in 1..Len(rest) :
                    rest[k] = "@" /\ \A j \in 1..(k - 1) : rest[j] # "@"
         IN  SubSeq(rest, i + 1, Len(rest))

\* The text before the first '@'.
LeftPart(rest) ==
    LET i == CHOOSE k \in 1..Len(rest) :
                rest[k] = "@" /\ \A j \in 1..(k - 1) : rest[j] # "@"
    IN  SubSeq(rest, 1, i - 1)

FieldCount(s) == CountChar(s, ":") + 1

\* The k-th of the fields of s that ':' separates.
Field(s, k) ==
    LET colons == {i \in 1..Len(s) : s[i] = ":"}
        before == IF k = 1 THEN 0
                  ELSE CHOOSE i \in colons : Cardinality({j \in colons : j < i}) = k - 2
        after == IF k = FieldCount(s) THEN Len(s) + 1
                 ELSE CHOOSE i \in colons : Cardinality({j \in colons : j < i}) = k - 1
    IN  SubSeq(s, before + 1, after - 1)

\* The text before the first "://", when there is one.
HasScheme(s) == \E i \in 1..(Len(s) - 2) : SubSeq(s, i, i + 2) = <<":", "/", "/">>

Scheme(s) ==
    LET i == CHOOSE k \in 1..(Len(s) - 2) :
                /\ SubSeq(s, k, k + 2) = <<":", "/", "/">>
                /\ \A j \in 1..(k - 1) : SubSeq(s, j, j + 2) # <<":", "/", "/">>
    IN  SubSeq(s, 1, i - 1)

\* s is the decimal representation of an integer of lo..hi.
IsDecimalIn(s, lo, hi) ==
    /\ Len(s) \in 1..5
    /\ \A i \in 1..Len(s) : IsDigit(s[i])
    /\ Len(s) > 1 => s[1] # "0"
    /\ DigitsValue(s) \in lo..hi

\* h := h * 31 + code, kept modulo 2^32 as <<upper half, lower half>>.
RECURSIVE Horner(_, _)
Horner(str, n) ==
    IF n = 0 THEN <<0, 0>>
    ELSE LET h == Horner(str, n - 1)
             lo == h[2] * 31 + charCodeAt(str[n])
         IN  <<(h[1] * 31 + (lo \div Half)) % Half, lo % Half>>

\* |h mod 100000| for h the signed reading of the 32 bits <<hi, lo>>.
SignedAbsMod(h) ==
    IF h[1] < 32768 THEN (h[1] * Half + h[2]) % HashBuckets
    ELSE (((((Half - 1) - h[1]) * Half) % HashBuckets) + (Half - h[2])) % HashBuckets

CredentialString(port, auth) ==
    numberToString(port) \o <<":">> \o auth.username \o <<":">> \o auth.password

Parsed == stage = "parsed"

Accepted == Parsed /\ result # Absent

Rest == rawWithoutProtocol(raw)

BothAccepted ==
    /\ pairResult[1] \notin {Pending, Absent}
    /\ pairResult[2] \notin {Pending, Absent}

SameEndpointOtherCredentials ==
    /\ BothAccepted
    /\ pairResult[1].address = pairResult[2].address
    /\ pairResult[1].auth # pairResult[2].auth

PairHash(k) ==
    IF pairResult[k].auth = Null THEN pairResult[k].address.port
    ELSE SignedAbsMod(LET str == CredentialString(pairResult[k].address.port,
                                                  pairResult[k].auth)
                      IN  Horner(str, Len(str)))

\* C1 as stated: two accepted descriptors with the same hostname and port and
\* different credentials have different identity keys.
C1_DistinctKeys ==
    SameEndpointOtherCredentials => pairResult[1].key # pairResult[2].key

\* C1, amended: two accepted descriptors with the same hostname and port and
\* different credentials have the same identity key exactly when the hashes of
\* their credentials (|h mod 100000|, or the port without authentication) are
\* equal, which distinct credentials can be.
C1_KeysDifferUnlessHashesCollide ==
    SameEndpointOtherCredentials =>
        ((pairResult[1].key = pairResult[2].key) <=> (PairHash(1) = PairHash(2)))

\* Usernames "Aa" and "BB" with the same password and port collide.
C1_Witness ==
    /\ SameEndpointOtherCredentials
    /\ pairResult[1].auth # Null
    /\ pairResult[2].auth # Null
    /\ pairResult[1].key = pairResult[2].key

C3_WholePortField ==
    Accepted => IsDecimalIn(Field(HostPart(Rest), 2), 1, PortMax)

\* C4: the identity key is hostname # hash; hash is the port without
\* authentication, and otherwise |h mod 100000| for the 32-bit hash h of
\* "port:username:password", so that 0 <= hash < 100000.
C4_KeyFormula ==
    Accepted =>
        LET str == CredentialString(result.address.port, result.auth)
            hash == IF result.auth = Null THEN result.address.port
                    ELSE SignedAbsMod(Horner(str, Len(str)))
        IN  /\ result.key = result.address.hostname \o <<"#">> \o numberToString(hash)
            /\ result.auth # Null => hash \in 0..(HashBuckets - 1)

\* An accepted descriptor with authentication whose 32-bit hash is negative.
C4_Witness ==
    /\ Accepted
    /\ result.auth # Null
    /\ LET str == CredentialString(result.address.port, result.auth)
       IN  Horner(str, Len(str))[1] >= 32768

Socks == <<"s", "o", "c", "k", "s">>

\* C5: the type of a returned record follows from the scheme alone, and a
\* descriptor with an unrecognized scheme is rejected.
C5_TypeFromScheme ==
    Parsed =>
        IF ~HasScheme(raw) THEN (result # Absent => result.type = EProxyType_HTTP)
        ELSE IF startsWith(Scheme(raw), EProxyType_SOCKS4)
             THEN (result # Absent => result.type = EProxyType_SOCKS4)
        ELSE IF startsWith(Scheme(raw), Socks)
             THEN (result # Absent => result.type = EProxyType_SOCKS5)
        ELSE IF Scheme(raw) \in PROXY_TYPE_KEYS
             THEN (result # Absent => result.type = Scheme(raw))
        ELSE result = Absent

\* "socks4a://..." is accepted as SOCKS4.
C5_Witness ==
    /\ Accepted
    /\ HasScheme(raw)
    /\ Scheme(raw) = <<"s", "o", "c", "k", "s", "4", "a">>
    /\ result.type = EProxyType_SOCKS4
    /\ result.auth # Null

\* The authentication user[:pass] reads: cut at the first ':'.
UserPass(s) ==
    IF CountChar(s, ":") = 0 THEN [username |-> s, password |-> <<>>]
    ELSE [username |-> Field(s, 1),
          password |-> SubSeq(s, Len(Field(s, 1)) + 2, Len(s))]

\* C6 as stated: with one '@' the authentication is the left side of the '@';
\* without '@' it is fields 3 and 4 of a 4-field host part, and none with 2 fields.
C6_AuthSource ==
    Accepted =>
        IF CountChar(Rest, "@") = 1 THEN result.auth = UserPass(LeftPart(Rest))
        ELSE IF FieldCount(HostPart(Rest)) = 4
             THEN result.auth = [username |-> Field(HostPart(Rest), 3),
                                 password |-> Field(HostPart(Rest), 4)]
        ELSE result.auth = Null

(***************************************************************************)
(* Properties of the start command.                                        *)
(***************************************************************************)
Started(i) == pc[i] \in {"connected", "armed", "running"}

OrdersConsumers == {i \in Instances : "orders" \in subscribed[i]}

EventsConsumers == {i \in Instances : "events" \in subscribed[i]}

RefreshEnabled(c) ==
    \/ c.refreshAll \/ c.refreshConnectors \/ c.refreshFreeproxies
    \/ c.refreshMetrics \/ c.refreshProxies \/ c.refreshTasks

\* C9 as stated: with --test the command goes on only when the commander and
\* the refresh modules are both enabled on the instance; otherwise it fails
\* before the local datacenter, the local proxy or the application is started.
C9_TestNeedsCommanderAndRefresh ==
    \A i \in Instances :
        (config[i].test /\ pc[i] \notin {"off", "new"}) =>
            \/ config[i].commander /\ RefreshEnabled(config[i])
            \/ pc[i] = "failed" /\ error[i] # NoError /\ localApps[i] = {} /\ ~app[i]

\* The command of instance i has got past the checks of its options.
Validated(i) == pc[i] \notin {"off", "new", "failed"}

\* C18: once the command is past the checks of its options, a module or a
\* refresh flag is enabled, standalone implies commander, frontend, master and
\* refresh-all, refresh-all implies the five refresh modules, and the commander
\* has a storage type; a commander without one fails with the storage error.
C18_ResolvedConfiguration ==
    \A i \in Instances :
        /\ Validated(i) =>
              /\ \/ config[i].standalone \/ config[i].master \/ config[i].commander
                 \/ config[i].frontend \/ RefreshEnabled(config[i])
              /\ config[i].standalone =>
                    /\ config[i].commander /\ config[i].frontend
                    /\ config[i].master /\ config[i].refreshAll
              /\ config[i].refreshAll =>
                    /\ config[i].refreshConnectors /\ config[i].refreshFreeproxies
                    /\ config[i].refreshMetrics /\ config[i].refreshProxies
                    /\ config[i].refreshTasks
              /\ config[i].commander => ~NoStorage(config[i])
        /\ (pc[i] = "failed" /\ config[i].commander /\ NoStorage(config[i])) =>
              error[i] = ErrorStorage
        /\ (pc[i] = "failed" /\ config[i].standalone) => ~NoStorage(config[i])

\* An instance for which no storage type was given runs as a standalone
\* instance on the default storage.
C18_Witness ==
    \E i \in Instances :
        /\ Started(i)
        /\ config[i].standalone
        /\ config[i].storage = "file"
        /\ env[i].storageType \in {Undefined, ""}

(***************************************************************************)
(* Properties of the fleet orchestration engine.                           *)
(***************************************************************************)
\* C10 as stated: in every state, each connector has at most one non-terminal
\* task of each operation class.
C10_OneActiveTaskPerClass ==
    \A c \in Connectors, class \in OperationClasses :
        Cardinality(ActiveTasks(Storage, c, class)) <= 1

\* The order a step or a tick has just submitted, when the queue has grown.
OrderSubmitted == Len(orders') = Len(orders) + 1

LastOrder == orders'[Len(orders')]

StepSubmitted == OrderSubmitted /\ LastOrder.operation = "updateTask"

\* A stored task that is terminal stays as it is.
TerminalIsFinal(k) ==
    (tasks[k] # NoTask /\ tasks[k].status \in Terminal) => tasks'[k] = tasks[k]

\* A stored task whose retry count has reached the maximum has failed.
RetryRule(k) ==
    (tasks'[k] # NoTask /\ tasks'[k].retries >= maxRetries) => tasks'[k].status = "FAILED"

Converged(c) == liveCount[c] = desiredCount[c]

\* The budget of orders of the model is spent.
OrdersSpent == submitted = MaxOrders

OrderTaken == orders # <<>> /\ orders' = Tail(orders)

EventsOf(k) == {n \in DOMAIN events : events[n].key = k}

PendingLogins == {p \in DOMAIN logins : logins[p] = "pending"}

Waiting == {r \in Requests : requests[r].state = "waiting"}

\* C15: at most one login is in flight, and every request that waits, waits
\* for that login (so the requests issued while the token is expired and a
\* login is pending have made one call to login between them).
C15_OneLoginInFlight ==
    /\ Cardinality(PendingLogins) <= 1
    /\ \A r \in Waiting : requests[r].login \in PendingLogins

\* Two requests or more wait for the one login in flight.
C15_Witness ==
    /\ Cardinality(Waiting) >= 2
    /\ Cardinality(PendingLogins) = 1

\* Request r is issued in this step.
Issued(r) == requests[r].state = "idle" /\ requests'[r].state # "idle"

FailedLogins == {p \in DOMAIN logins : logins[p] = "rejected"}

\* C16 as stated: a request issued after a login has failed, with the token
\* expired and no login in flight, starts a new login and waits for it.
C16_NewLoginAfterFailure ==
    [][\A r \in Requests :
          (Issued(r) /\ Expired /\ FailedLogins # {} /\ PendingLogins = {}) =>
              /\ Len(logins') = Len(logins) + 1
              /\ requests'[r].state = "waiting"]_vars

\* C17: a request that has been sent carries the token a resolved login
\* returned; a request is not sent when the login it awaits is rejected; and the
\* first request of a client waits for a login.
C17_BearerFromLogin ==
    /\ [](\A r \in Requests :
             requests[r].state = "sent" =>
                 /\ requests[r].bearer # NoToken
                 /\ logins[requests[r].bearer] = "resolved")
    /\ [][\A r \in Requests :
             /\ (requests[r].state = "waiting" /\ logins'[requests[r].login] = "rejected")
                    => requests'[r].state = "failed"
             /\ (Issued(r) /\ logins = <<>>) => requests'[r].state = "waiting"]_vars

\* One request was sent with the token of the login it waited for, another
\* with a token it found valid, and a third failed with its login.
C17_Witness ==
    \E r1, r2, r3 \in Requests :
        /\ requests[r1].state = "sent" /\ requests[r1].login # NoPromise
        /\ requests[r2].state = "sent" /\ requests[r2].login = NoPromise
        /\ requests[r3].state = "failed"

====
